---- MODULE Spec2Model ----
(***************************************************************************)
(* Exact inference over a family pedigree (heredity.py).                   *)
(*                                                                         *)
(* Numbers.  The program computes with Python floats; the model computes   *)
(* with exact decimal fixed point.  An entry of PROBS or PARENT_PROB is    *)
(* held in hundredths (0.96 is 96), the value child_parent_prob returns in *)
(* ten-thousandths (a product of two table entries), one person's factor   *)
(* current_prob in millionths, and total_prob, a product of one factor per *)
(* person, as an arbitrary-size natural (a Big: little-endian limbs in     *)
(* base 10^9, no leading zero limb, zero is <<>>) over 10^(6n) for the n   *)
(* people of the pedigree.  All joint probabilities of one run share that  *)
(* denominator, so the accumulator holds their numerators, and normalize   *)
(* yields fractions [num, den].  Rounding of floats is not modelled.       *)
(*                                                                         *)
(* Line 233 of heredity.py (`return prob`) is indented by three spaces; it *)
(* is read as the function's return statement.                             *)
(***************************************************************************)
EXTENDS Integers, Sequences, FiniteSets, TLC

\* ------------------------------------------------------------------ bounds
\* Largest number of rows (people) in a loaded CSV file.
MaxPeople == 3
\* Largest accumulator bucket drawn when normalize is exercised on its own.
MaxBucket == 1

\* ------------------------------------------------------------- big naturals
Base == 1000 * 1000 * 1000

RECURSIVE BigTrim(_)
BigTrim(a) ==
    IF a = <<>> THEN <<>>
    ELSE IF a[Len(a)] = 0 THEN BigTrim(SubSeq(a, 1, Len(a) - 1))
    ELSE a

\* limb * k + carry for a limb below Base, k < 10^4 and carry < 10^5, as
\* <<low limb, carry out>>; no intermediate value reaches 2^31.
MulLimb(limb, k, carry) ==
    LET hi  == limb \div 100000
        lo  == limb % 100000
        t   == hi * k
        low == (t % 10000) * 100000 + lo * k + carry
    IN  <<low % Base, (t \div 10000) + (low \div Base)>>

RECURSIVE BigMulCarry(_, _, _)
BigMulCarry(a, k, carry) ==
    IF a = <<>>
    THEN IF carry = 0 THEN <<>> ELSE <<carry>>
    ELSE LET r == MulLimb(Head(a), k, carry)
         IN  <<r[1]>> \o BigMulCarry(Tail(a), k, r[2])

\* a * k for a Big a and a natural k < 10^4.
BigMul(a, k) == BigTrim(BigMulCarry(a, k, 0))

\* The limbs of a + b from limb i on, given the carry into limb i.
RECURSIVE BigAddCarry(_, _, _, _)
BigAddCarry(a, b, i, carry) ==
    IF i > Len(a) /\ i > Len(b)
    THEN IF carry = 0 THEN <<>> ELSE <<carry>>
    ELSE LET v == (IF i > Len(a) THEN 0 ELSE a[i]) + (IF i > Len(b) THEN 0 ELSE b[i]) + carry
         IN  IF v >= Base THEN <<v - Base>> \o BigAddCarry(a, b, i + 1, 1)
             ELSE <<v>> \o BigAddCarry(a, b, i + 1, 0)

BigAdd(a, b) == IF a = <<>> THEN b ELSE IF b = <<>> THEN a ELSE BigAddCarry(a, b, 1, 0)

RECURSIVE BigLessFrom(_, _, _)
BigLessFrom(a, b, i) ==
    IF i = 0 THEN FALSE
    ELSE IF a[i] # b[i] THEN a[i] < b[i]
    ELSE BigLessFrom(a, b, i - 1)

\* a < b
BigLess(a, b) ==
    IF Len(a) # Len(b) THEN Len(a) < Len(b) ELSE BigLessFrom(a, b, Len(a))

BigZero == <<>>
BigOne == <<1>>

\* ------------------------------------------------------ probability tables
\* PROBS["gene"], in hundredths.
PROBS_gene == [g \in {0, 1, 2} |-> CASE g = 2 -> 1 [] g = 1 -> 3 [] g = 0 -> 96]

\* PROBS["trait"], in hundredths.
PROBS_trait ==
    [g \in {0, 1, 2} |->
        CASE g = 2 -> [t \in BOOLEAN |-> IF t THEN 65 ELSE 35]
          [] g = 1 -> [t \in BOOLEAN |-> IF t THEN 56 ELSE 44]
          [] g = 0 -> [t \in BOOLEAN |-> IF t THEN 1 ELSE 99]]

\* PROBS["mutation"], in hundredths.
PROBS_mutation == 1

\* The float 1 (1.0), in hundredths.
One == 100

\* PARENT_PROB["parent"], in hundredths: [count][allele passed on].
PARENT_PROB ==
    [g \in {0, 1, 2} |->
        CASE g = 0 -> [a \in {0, 1} |-> IF a = 0 THEN One - PROBS_mutation ELSE PROBS_mutation]
          [] g = 1 -> [a \in {0, 1} |-> 50]
          [] g = 2 -> [a \in {0, 1} |-> IF a = 0 THEN PROBS_mutation ELSE One - PROBS_mutation]]

\* ------------------------------------------------------------ CSV files
AllNames == <<"Lily", "James", "Harry", "Ginny", "Albus">>

\* Python's None.
None == "<None>"

\* The trait cell of a row: "1", "0" or blank.
TraitCells == {"1", "0", ""}

NamesBefore(i) == {AllNames[j] : j \in 1 .. (i - 1)}

\* Any row at line i: each parent cell blank or the name of an earlier row.
AnyRows(i) ==
    [name : {AllNames[i]}, mother : NamesBefore(i) \cup {""},
     father : NamesBefore(i) \cup {""}, trait : TraitCells]

\* The rows a documented file may hold at line i: mother and father both
\* blank, or both names of earlier rows (the mother's row first).
GoodRows(i) ==
    {r \in AnyRows(i) :
        \/ r.mother = "" /\ r.father = ""
        \/ \E j, k \in 1 .. (i - 1) :
              j < k /\ r.mother = AllNames[j] /\ r.father = AllNames[k]}

\* The files of n rows, documented ones only (good) or any.
RECURSIVE FilesOf(_, _)
FilesOf(n, good) ==
    IF n = 0 THEN {<<>>}
    ELSE {Append(f, r) : f \in FilesOf(n - 1, good),
                         r \in IF good THEN GoodRows(n) ELSE AnyRows(n)}

\* The files of at most MaxPeople rows.
Files(good) == UNION {FilesOf(n, good) : n \in 0 .. MaxPeople}

\* `cell or None`
OrNone(cell) == IF cell = "" THEN None ELSE cell

\* The trait of a row: True, False or None.
TraitOf(cell) == IF cell = "1" THEN "True" ELSE IF cell = "0" THEN "False" ELSE None

\* load_data: the dictionary built from the rows, a later row of a name
\* replacing an earlier one.
RECURSIVE load_data_from(_, _, _)
load_data_from(rs, i, data) ==
    IF i > Len(rs) THEN data
    ELSE LET row == rs[i]
             rec == [name |-> row.name, mother |-> OrNone(row.mother),
                     father |-> OrNone(row.father), trait |-> TraitOf(row.trait)]
         IN  load_data_from(rs, i + 1,
                 [n \in DOMAIN data \cup {row.name} |->
                     IF n = row.name THEN rec ELSE data[n]])

load_data(rs) == load_data_from(rs, 1, <<>>)

\* list(s): the elements of a set of names as a list (in the order of AllNames).
RECURSIVE ListFrom(_, _)
ListFrom(s, i) ==
    IF i > Len(AllNames) THEN <<>>
    ELSE (IF AllNames[i] \in s THEN <<AllNames[i]>> ELSE <<>>) \o ListFrom(s, i + 1)

List(s) == ListFrom(s, 1)

\* itertools.combinations(l, r), each combination as a set.
RECURSIVE combinations(_, _)
combinations(l, r) ==
    IF r = 0 THEN <<{}>>
    ELSE IF Len(l) < r THEN <<>>
    ELSE LET rest == combinations(Tail(l), r - 1)
         IN  [k \in 1 .. Len(rest) |-> {Head(l)} \cup rest[k]]
             \o combinations(Tail(l), r)

RECURSIVE chain(_, _)
chain(l, r) ==
    IF r > Len(l) THEN <<>> ELSE combinations(l, r) \o chain(l, r + 1)

\* powerset(s): the list of all subsets of s, by size.
powerset(s) == chain(List(s), 0)

\* ----------------------------------------------------- joint probability
\* The hypothesis as joint_probability and update rebuild it per name.
Request(names, one_gene, two_genes, have_trait) ==
    [name \in names |->
        [gene  |-> IF name \in one_gene THEN 1
                   ELSE IF name \in two_genes THEN 2 ELSE 0,
         trait |-> name \in have_trait]]

\* child_parent_prob with the one-copy case as the sum of the two parents'
\* chances of passing the gene on.
child_parent_prob_one_copy_sum(child, people, request) ==
    IF people[child].mother # None
    THEN LET mum == people[child].mother
             dad == people[child].father
             child_gene_no == request[child].gene
         IN  CASE child_gene_no = 0 ->
                    PARENT_PROB[request[mum].gene][0] * PARENT_PROB[request[dad].gene][0]
               [] child_gene_no = 1 ->
                    One * PARENT_PROB[request[mum].gene][1]
                    + One * PARENT_PROB[request[dad].gene][1]
               [] child_gene_no = 2 ->
                    PARENT_PROB[request[mum].gene][1] * PARENT_PROB[request[dad].gene][1]
    ELSE PROBS_gene[request[child].gene] * One

\* child_parent_prob with the two-copy case reading the father's chance of
\* passing on the normal allele.
child_parent_prob_two_copies_slip(child, people, request) ==
    IF people[child].mother # None
    THEN LET mum == people[child].mother
             dad == people[child].father
             child_gene_no == request[child].gene
         IN  CASE child_gene_no = 0 ->
                    PARENT_PROB[request[mum].gene][0] * PARENT_PROB[request[dad].gene][0]
               [] child_gene_no = 1 ->
                    PARENT_PROB[request[mum].gene][1] * (One - PARENT_PROB[request[dad].gene][1])
                    + (One - PARENT_PROB[request[mum].gene][1]) * PARENT_PROB[request[dad].gene][1]
               [] child_gene_no = 2 ->
                    PARENT_PROB[request[mum].gene][1] * PARENT_PROB[request[dad].gene][0]
    ELSE PROBS_gene[request[child].gene] * One

\* child_parent_prob, in ten-thousandths.
child_parent_prob(child, people, request) ==
    IF people[child].mother # None
    THEN LET mum == people[child].mother
             dad == people[child].father
             child_gene_no == request[child].gene
         IN  CASE child_gene_no = 0 ->
                    PARENT_PROB[request[mum].gene][0] * PARENT_PROB[request[dad].gene][0]
               [] child_gene_no = 1 ->
                    PARENT_PROB[request[mum].gene][1] * (One - PARENT_PROB[request[dad].gene][1])
                    + (One - PARENT_PROB[request[mum].gene][1]) * PARENT_PROB[request[dad].gene][1]
               [] child_gene_no = 2 ->
                    PARENT_PROB[request[mum].gene][1] * PARENT_PROB[request[dad].gene][1]
    ELSE PROBS_gene[request[child].gene] * One

\* The trait factor read at True whatever the hypothesis says.
trait_prob_ignoring_hypothesis(name, request) == PROBS_trait[request[name].gene][TRUE]

\* PROBS["trait"][request[name]["gene"]][request[name]["trait"]], in hundredths.
trait_prob(name, request) == PROBS_trait[request[name].gene][request[name].trait]

\* total_prob after the loop over names[i..]: each person's current_prob (the
\* value of child_parent_prob times the trait factor) multiplied in.
RECURSIVE total_prob(_, _, _, _)
total_prob(names, i, people, request) ==
    IF i > Len(names) THEN BigOne
    ELSE BigMul(BigMul(total_prob(names, i + 1, people, request),
                       child_parent_prob(names[i], people, request)),
                trait_prob(names[i], request))

joint_probability(people, one_gene, two_genes, have_trait) ==
    LET names   == List(DOMAIN people)
        request == Request(DOMAIN people, one_gene, two_genes, have_trait)
    IN  total_prob(names, 1, people, request)

\* request[mum] or request[dad] raises KeyError for some child with a mother.
RaisesKeyError(people) ==
    \E child \in DOMAIN people :
        /\ people[child].mother # None
        /\ \/ people[child].mother \notin DOMAIN people
           \/ people[child].father \notin DOMAIN people

\* ------------------------------------------------------------ accumulator
Zeros(names) ==
    [person \in names |->
        [gene  |-> [g \in {0, 1, 2} |-> BigZero],
         trait |-> [t \in BOOLEAN |-> BigZero]]]

\* update that adds to a trait bucket only for the people who have the trait.
update_trait_only_if_present(probabilities, one_gene, two_genes, have_trait, p) ==
    LET request == Request(DOMAIN probabilities, one_gene, two_genes, have_trait)
    IN  [name \in DOMAIN probabilities |->
            [gene  |-> [g \in {0, 1, 2} |->
                          IF g = request[name].gene
                          THEN BigAdd(probabilities[name].gene[g], p)
                          ELSE probabilities[name].gene[g]],
             trait |-> [t \in BOOLEAN |->
                          IF t /\ request[name].trait
                          THEN BigAdd(probabilities[name].trait[t], p)
                          ELSE probabilities[name].trait[t]]]]

\* update: p added to the bucket of each person's gene count and trait.
update(probabilities, one_gene, two_genes, have_trait, p) ==
    LET request == Request(DOMAIN probabilities, one_gene, two_genes, have_trait)
    IN  [name \in DOMAIN probabilities |->
            [gene  |-> [g \in {0, 1, 2} |->
                          IF g = request[name].gene
                          THEN BigAdd(probabilities[name].gene[g], p)
                          ELSE probabilities[name].gene[g]],
             trait |-> [t \in BOOLEAN |->
                          IF t = request[name].trait
                          THEN BigAdd(probabilities[name].trait[t], p)
                          ELSE probabilities[name].trait[t]]]]

gene_sum(acc) == BigAdd(BigAdd(acc.gene[0], acc.gene[1]), acc.gene[2])

trait_sum(acc) == BigAdd(acc.trait[FALSE], acc.trait[TRUE])

\* A division that never raises (0/0 yields a value, as with IEEE floats).
DividesByZero_never(probabilities) == FALSE

\* A division of normalize raises ZeroDivisionError.
DividesByZero(probabilities) ==
    \E person \in DOMAIN probabilities :
        \/ gene_sum(probabilities[person]) = BigZero
        \/ trait_sum(probabilities[person]) = BigZero

\* normalize: every bucket divided by the sum of its distribution.
normalize(probabilities) ==
    [person \in DOMAIN probabilities |->
        [gene  |-> [g \in {0, 1, 2} |->
                      [num |-> probabilities[person].gene[g],
                       den |-> gene_sum(probabilities[person])]],
         trait |-> [t \in BOOLEAN |->
                      [num |-> probabilities[person].trait[t],
                       den |-> trait_sum(probabilities[person])]]]]

\* One person's part of normalize.
normalize_person(acc) ==
    [gene  |-> [g \in {0, 1, 2} |-> [num |-> acc.gene[g], den |-> gene_sum(acc)]],
     trait |-> [t \in BOOLEAN |-> [num |-> acc.trait[t], den |-> trait_sum(acc)]]]

\* The accumulator as normalize leaves it when a division raises: the people
\* before the first one with a zero sum are normalized, and that person's
\* gene buckets are too when only the trait sum is zero.
RECURSIVE normalize_until_error(_, _, _)
normalize_until_error(probabilities, order, i) ==
    IF i > Len(order) THEN probabilities
    ELSE LET person == order[i]
             acc    == probabilities[person]
         IN  IF gene_sum(acc) = BigZero THEN probabilities
             ELSE IF trait_sum(acc) = BigZero
             THEN [probabilities EXCEPT ![person].gene = normalize_person(acc).gene]
             ELSE normalize_until_error(
                      [probabilities EXCEPT ![person] = normalize_person(acc)],
                      order, i + 1)

\* The evidence test with `or` for `and`.
fails_evidence_or(people, have_trait) ==
    \E person \in DOMAIN people :
        \/ people[person].trait # None
        \/ people[person].trait # (IF person \in have_trait THEN "True" ELSE "False")

\* The evidence test with `==` for `!=`.
fails_evidence_eq(people, have_trait) ==
    \E person \in DOMAIN people :
        /\ people[person].trait # None
        /\ people[person].trait = (IF person \in have_trait THEN "True" ELSE "False")

\* The evidence test that lets every candidate through.
fails_evidence_off(people, have_trait) == FALSE

\* The evidence test of main for one candidate set have_trait.
fails_evidence(people, have_trait) ==
    \E person \in DOMAIN people :
        /\ people[person].trait # None
        /\ people[person].trait # (IF person \in have_trait THEN "True" ELSE "False")

\* The candidates for two_genes that skip nobody.
two_genes_candidates_all(all_names, one) == powerset(all_names)

\* The list the loop over two_genes runs through: powerset(names - one_gene).
two_genes_candidates(all_names, one) == powerset(all_names \ one)

\* A hypothesis as one number, for the history of calls: per person (in the
\* order of AllNames) a digit in base 8 that says whether the person is in
\* one_gene (1), in two_genes (2) and in have_trait (4).  Different triples of
\* sets have different codes.
RECURSIVE CodeFrom(_, _, _, _)
CodeFrom(one, two, trait, i) ==
    IF i > Len(AllNames) THEN 0
    ELSE (IF AllNames[i] \in one THEN 1 ELSE 0)
         + (IF AllNames[i] \in two THEN 2 ELSE 0)
         + (IF AllNames[i] \in trait THEN 4 ELSE 0)
         + 8 * CodeFrom(one, two, trait, i + 1)

Code(h) == CodeFrom(h.one_gene, h.two_genes, h.have_trait, 1)

\* ------------------------------------------------------------------ state
VARIABLES
    rows,           \* the rows of the CSV file named on the command line
    people,         \* main's people, as load_data returns it
    probabilities,  \* main's accumulator
    pc,             \* where main is, or the exception that ended it
    trait_sets,     \* the list the loop over have_trait runs through
    one_sets,       \* the list the loop over one_gene runs through
    two_sets,       \* the list the loop over two_genes runs through
    ti, oi, wi,     \* positions of the three loops in their lists
    p,              \* the joint probability of the last hypothesis
    hyp,            \* the last hypothesis passed to joint_probability and update
    before,         \* history: the accumulator before the last call of update
    seen,           \* history: the hypotheses passed so far (their codes)
    ncalls,         \* history: how many calls of update so far
    total,          \* history: the sum of the joint probabilities so far
    printed         \* the results were printed

vars == <<rows, people, probabilities, pc, trait_sets, one_sets, two_sets,
          ti, oi, wi, p, hyp, before, seen, ncalls, total, printed>>

NoHyp == [one_gene |-> {}, two_genes |-> {}, have_trait |-> {}]

InitWith(files) ==
    /\ rows \in files
    /\ people = <<>>
    /\ probabilities = <<>>
    /\ pc = "start"
    /\ trait_sets = <<>> /\ one_sets = <<>> /\ two_sets = <<>>
    /\ ti = 1 /\ oi = 1 /\ wi = 1
    /\ p = BigZero
    /\ hyp = NoHyp
    /\ before = <<>>
    /\ seen = {}
    /\ ncalls = 0
    /\ total = BigZero
    /\ printed = FALSE

\* A run on a file as load_data's docstring asks for.
Init == InitWith(Files(TRUE))

\* A run on any file.
InitLoad == InitWith(Files(FALSE))

names == DOMAIN people

\* The loop variables of main at the current positions.
have_trait == trait_sets[ti]
one_gene == one_sets[oi]
two_genes == two_sets[wi]

\* main up to its first loop: load the file, zero the accumulator, list the
\* candidate sets of people with the trait.
Load ==
    /\ pc = "start"
    /\ people' = load_data(rows)
    /\ probabilities' = Zeros(DOMAIN people')
    /\ trait_sets' = powerset(DOMAIN people')
    /\ pc' = "trait_loop"
    /\ UNCHANGED <<rows, one_sets, two_sets, ti, oi, wi, p, hyp, before, seen, ncalls, total, printed>>

\* The next have_trait violates known information: continue.
SkipEvidence ==
    /\ pc = "trait_loop"
    /\ ti <= Len(trait_sets)
    /\ fails_evidence(people, have_trait)
    /\ ti' = ti + 1
    /\ UNCHANGED <<rows, people, probabilities, pc, trait_sets, one_sets, two_sets,
                   oi, wi, p, hyp, before, seen, ncalls, total, printed>>

\* The next have_trait agrees with the evidence: enter the gene loops.
EnterGeneLoops ==
    /\ pc = "trait_loop"
    /\ ti <= Len(trait_sets)
    /\ ~fails_evidence(people, have_trait)
    /\ pc' = "gene_loop"
    /\ one_sets' = powerset(names)
    /\ two_sets' = two_genes_candidates(names, one_sets'[1])
    /\ oi' = 1 /\ wi' = 1
    /\ UNCHANGED <<rows, people, probabilities, trait_sets, ti, p, hyp, before, seen, ncalls,
                   total, printed>>

\* The three loops move on after one body.
Advance ==
    IF wi < Len(two_sets)
    THEN wi' = wi + 1 /\ UNCHANGED <<two_sets, oi, ti, pc>>
    ELSE IF oi < Len(one_sets)
    THEN /\ oi' = oi + 1
         /\ two_sets' = two_genes_candidates(names, one_sets[oi + 1])
         /\ wi' = 1
         /\ UNCHANGED <<ti, pc>>
    ELSE /\ ti' = ti + 1
         /\ pc' = "trait_loop"
         /\ UNCHANGED <<two_sets, oi, wi>>

\* One body of the inner loop: joint_probability, then update.
Evaluate ==
    /\ pc = "gene_loop"
    /\ ~RaisesKeyError(people)
    /\ p' = joint_probability(people, one_gene, two_genes, have_trait)
    /\ probabilities' = update(probabilities, one_gene, two_genes, have_trait, p')
    /\ total' = BigAdd(total, p')
    /\ hyp' = [one_gene |-> one_gene, two_genes |-> two_genes, have_trait |-> have_trait]
    /\ before' = probabilities
    /\ seen' = seen \cup {Code(hyp')}
    /\ ncalls' = ncalls + 1
    /\ Advance
    /\ UNCHANGED <<rows, people, trait_sets, one_sets, printed>>

\* joint_probability looks up a parent who is None: KeyError ends the run.
EvaluateKeyError ==
    /\ pc = "gene_loop"
    /\ RaisesKeyError(people)
    /\ hyp' = [one_gene |-> one_gene, two_genes |-> two_genes, have_trait |-> have_trait]
    /\ pc' = "KeyError"
    /\ UNCHANGED <<rows, people, probabilities, trait_sets, one_sets, two_sets,
                   ti, oi, wi, p, before, seen, ncalls, total, printed>>

\* The loops are over: normalize.
Normalize ==
    /\ pc = "trait_loop"
    /\ ti > Len(trait_sets)
    /\ ~DividesByZero(probabilities)
    /\ probabilities' = normalize(probabilities)
    /\ pc' = "normalized"
    /\ UNCHANGED <<rows, people, trait_sets, one_sets, two_sets, ti, oi, wi, p, hyp,
                   before, seen, ncalls, total, printed>>

\* normalize divides by a zero sum: ZeroDivisionError ends the run.
NormalizeZeroDivisionError ==
    /\ pc = "trait_loop"
    /\ ti > Len(trait_sets)
    /\ DividesByZero(probabilities)
    /\ probabilities' = normalize_until_error(probabilities, List(DOMAIN probabilities), 1)
    /\ pc' = "ZeroDivisionError"
    /\ UNCHANGED <<rows, people, trait_sets, one_sets, two_sets,
                   ti, oi, wi, p, hyp, before, seen, ncalls, total, printed>>

\* Print results.
PrintResults ==
    /\ pc = "normalized"
    /\ printed' = TRUE
    /\ pc' = "done"
    /\ UNCHANGED <<rows, people, probabilities, trait_sets, one_sets, two_sets,
                   ti, oi, wi, p, hyp, before, seen, ncalls, total>>

Next ==
    \/ Load
    \/ SkipEvidence
    \/ EnterGeneLoops
    \/ Evaluate
    \/ Normalize
    \/ PrintResults

Spec == Init /\ [][Next]_vars

NextLoad ==
    \/ Load
    \/ SkipEvidence
    \/ EnterGeneLoops
    \/ Evaluate
    \/ EvaluateKeyError
    \/ Normalize
    \/ PrintResults

SpecLoad == InitLoad /\ [][NextLoad]_vars

\* ------------------------------------------------ normalize on its own
Small(k) == IF k = 0 THEN BigZero ELSE <<k>>

\* Two founders of unknown trait.
TwoFounders ==
    <<[name |-> AllNames[1], mother |-> "", father |-> "", trait |-> ""],
      [name |-> AllNames[2], mother |-> "", father |-> "", trait |-> ""]>>

\* The accumulators of two people with every bucket in 0 .. MaxBucket.
Accumulators ==
    [DOMAIN load_data(TwoFounders) ->
        [gene : [{0, 1, 2} -> {Small(k) : k \in 0 .. MaxBucket}],
         trait : [BOOLEAN -> {Small(k) : k \in 0 .. MaxBucket}]]]

\* main after its loops, about to call normalize on any accumulator.
InitNorm ==
    /\ rows = TwoFounders
    /\ people = load_data(TwoFounders)
    /\ probabilities \in Accumulators
    /\ pc = "trait_loop"
    /\ trait_sets = powerset(DOMAIN load_data(TwoFounders))
    /\ one_sets = <<>> /\ two_sets = <<>>
    /\ ti = Len(powerset(DOMAIN load_data(TwoFounders))) + 1
    /\ oi = 1 /\ wi = 1
    /\ p = BigZero
    /\ hyp = NoHyp
    /\ before = <<>>
    /\ seen = {}
    /\ ncalls = 0
    /\ total = BigZero
    /\ printed = FALSE

NextNorm ==
    \/ Normalize
    \/ NormalizeZeroDivisionError
    \/ PrintResults

SpecNorm == InitNorm /\ [][NextNorm]_vars

\* ------------------------------------------------------------ properties
InLoops == pc \in {"trait_loop", "gene_loop"}

LoopsOver == pc = "trait_loop" /\ ti > Len(trait_sets)

Normalized == pc \in {"normalized", "done"}

\* A person's gene count and trait in a hypothesis (one_gene, two_genes, have_trait).
GeneCount(h, person) ==
    IF person \in h.one_gene THEN 1 ELSE IF person \in h.two_genes THEN 2 ELSE 0

HasTrait(h, person) == person \in h.have_trait

Founder(person) == people[person].mother = None /\ people[person].father = None

Known(person) == people[person].trait # None

\* A trait assignment agrees with what is known of a person.
Agrees(person, t) == people[person].trait = None \/ people[person].trait = (IF t THEN "True" ELSE "False")

\* The gene factor of a person in hypothesis h, in ten-thousandths: the prior
\* for a founder; otherwise, with m and f the mother's and father's chance of
\* passing the gene on, (1-m)(1-f), m(1-f)+(1-m)f or mf.
GeneFactor(h, person) ==
    IF Founder(person) THEN 100 * PROBS_gene[GeneCount(h, person)]
    ELSE LET m == PARENT_PROB[GeneCount(h, people[person].mother)][1]
             f == PARENT_PROB[GeneCount(h, people[person].father)][1]
             c == GeneCount(h, person)
         IN  IF c = 0 THEN (100 - m) * (100 - f)
             ELSE IF c = 1 THEN m * (100 - f) + (100 - m) * f
             ELSE m * f

RECURSIVE ProductOver(_, _)
ProductOver(h, S) ==
    IF S = {} THEN BigOne
    ELSE LET person == CHOOSE x \in S : TRUE
         IN  BigMul(BigMul(ProductOver(h, S \ {person}),
                           PROBS_trait[GeneCount(h, person)][HasTrait(h, person)]),
                    GeneFactor(h, person))

AllConsistent ==
    {h \in [one_gene : SUBSET names, two_genes : SUBSET names, have_trait : SUBSET names] :
        /\ h.one_gene \cap h.two_genes = {}
        /\ \A person \in names : Agrees(person, person \in h.have_trait)}

C3_evidence_consistency ==
    /\ ncalls > 0 => \A person \in names : Agrees(person, HasTrait(hyp, person))
    /\ InLoops =>
          \A person \in names :
              /\ people[person].trait = "True" => probabilities[person].trait[FALSE] = BigZero
              /\ people[person].trait = "False" => probabilities[person].trait[TRUE] = BigZero

\* Candidates were skipped for a person known to have the trait and one known
\* not to, and hypotheses were added.
C3_witness ==
    /\ LoopsOver
    /\ \E a, b \in names : people[a].trait = "True" /\ people[b].trait = "False"
    /\ \E person \in names : ~Known(person)
    /\ total # BigZero

\* C4: a call of update adds p to the bucket of each person's gene count and
\* to the bucket of each person's trait and leaves every other bucket as it
\* was; so before normalization each person's gene buckets and trait buckets
\* both add up to the sum of the joint probabilities so far.
C4_update_adds_once ==
    InLoops =>
        \A person \in names :
            /\ ncalls > 0 =>
                  /\ \A g \in {0, 1, 2} :
                        probabilities[person].gene[g] =
                            IF g = GeneCount(hyp, person)
                            THEN BigAdd(before[person].gene[g], p)
                            ELSE before[person].gene[g]
                  /\ \A t \in BOOLEAN :
                        probabilities[person].trait[t] =
                            IF t = HasTrait(hyp, person)
                            THEN BigAdd(before[person].trait[t], p)
                            ELSE before[person].trait[t]
            /\ BigAdd(BigAdd(probabilities[person].gene[0], probabilities[person].gene[1]),
                      probabilities[person].gene[2]) = total
            /\ BigAdd(probabilities[person].trait[FALSE], probabilities[person].trait[TRUE])
                  = total

\* Several hypotheses were added for a family with a child, the last one
\* without the trait for somebody.
C4_witness ==
    /\ InLoops
    /\ ncalls > 3
    /\ \E person \in names : ~Founder(person)
    /\ \E person \in names : ~HasTrait(hyp, person) /\ GeneCount(hyp, person) = 2
    /\ total # BigZero

SumOfGene(dist) == BigAdd(BigAdd(dist.gene[0].num, dist.gene[1].num), dist.gene[2].num)

SumOfTrait(dist) == BigAdd(dist.trait[FALSE].num, dist.trait[TRUE].num)

SingleFounderUnobserved ==
    /\ Len(rows) = 1
    /\ rows[1].mother = "" /\ rows[1].father = "" /\ rows[1].trait = ""

TrioChildWithTrait ==
    /\ Len(rows) = 3
    /\ rows[1].mother = "" /\ rows[1].father = "" /\ rows[1].trait = ""
    /\ rows[2].mother = "" /\ rows[2].father = "" /\ rows[2].trait = ""
    /\ rows[3].mother = rows[1].name /\ rows[3].father = rows[2].name
    /\ rows[3].trait = "1"

WithCount(h, person, c) ==
    [one_gene   |-> IF c = 1 THEN h.one_gene \cup {person} ELSE h.one_gene \ {person},
     two_genes  |-> IF c = 2 THEN h.two_genes \cup {person} ELSE h.two_genes \ {person},
     have_trait |-> h.have_trait]

ChildGiven(h, child, c) ==
    LET g == WithCount(h, child, c)
    IN  child_parent_prob(child, people, Request(names, g.one_gene, g.two_genes, g.have_trait))

Degenerate(dist) ==
    \/ \E g \in {0, 1, 2} : dist.gene[g].den = BigZero
    \/ \E t \in BOOLEAN : dist.trait[t].den = BigZero

\* C9: when normalize is called with a zero gene sum or trait sum for some
\* person the run ends in an error (ZeroDivisionError) and prints nothing, and
\* no run returns from normalize or prints with a distribution divided by zero.
C9_zero_sum_is_an_error ==
    /\ [](Normalized => \A person \in names : ~Degenerate(probabilities[person]))
    /\ [](pc = "ZeroDivisionError" => ~printed)
    /\ [][(LoopsOver /\ \E person \in names :
                \/ BigAdd(BigAdd(probabilities[person].gene[0], probabilities[person].gene[1]),
                          probabilities[person].gene[2]) = BigZero
                \/ BigAdd(probabilities[person].trait[FALSE], probabilities[person].trait[TRUE])
                      = BigZero)
            => (pc' = "ZeroDivisionError" /\ ~printed')]_vars

\* normalize raised with nothing printed, the second person's trait sum zero.
C9_witness ==
    /\ pc = "ZeroDivisionError"
    /\ probabilities[AllNames[2]].trait[TRUE] = BigZero
    /\ probabilities[AllNames[2]].trait[FALSE] = BigZero
    /\ ~printed

BothOrNeither(person) == (people[person].mother = None) <=> (people[person].father = None)

\* C10: every record load_data hands over has mother and father both present
\* or both absent: no person with exactly one of them reaches the gene loops
\* of main, where joint_probability is called.
C10_loader_validates_parents ==
    pc \notin {"start", "trait_loop"} => \A person \in names : BothOrNeither(person)

====
